---- MODULE Spec2Model ----
(***************************************************************************)
(* Model of the answer-grading subsystem of indra-ji/affordance            *)
(* (src/tester.py): the Import Guard safe_import and the Grader            *)
(* generate_result, which executes an answer's code and then a test's code *)
(* in one freshly built namespace.                                         *)
(*                                                                         *)
(* Graded code is Python source text.  It is modelled as the sequence of   *)
(* top-level statements the interpreter executes, one statement per step,  *)
(* each statement drawn from the vocabulary Stmts; whether a code unit     *)
(* compiles is decided when exec() is entered, before its first statement. *)
(***************************************************************************)
EXTENDS Integers, Sequences, FiniteSets, TLC

VARIABLES
    hostBuiltins,   \* the host's built-ins mapping (__builtins__ of tester.py)
    pc,             \* position of the current generate_result invocation
    safe_builtins,  \* local safe_builtins of the invocation
    namespace,      \* local namespace of the invocation, without its "__builtins__" key
    exc,            \* the exception raised inside the try block, if any
    result,         \* how the invocation left generate_result
    callNo,         \* number of invocations started so far
    nAnswer,        \* statements of answer.content executed in this invocation
    nTest,          \* statements of test.content executed in this invocation
    last,           \* the statement executed last in this invocation, and its phase
    delegated,      \* module names handed to the real import mechanism in this invocation
    boundBy,        \* which code unit bound each variable name in this invocation
    assertsHeld,    \* assert statements of the test code that held in this invocation
    workers,        \* concurrent generate_result invocations, one per worker thread
    pipe,           \* the last run of the evaluation pipeline
    metrics,        \* the results of a Resultset whose metrics are read
    cfg,            \* a configuration directory and the last find_config_file call
    llm,            \* the last generate_answer call and its coroutine
    fsys,           \* a JSON file, the model it was serialized from, the last call on it
    cleaner,        \* a text, what the two clean_code functions made of it
    retrying        \* the attempts of one generate_openai_answer call under @retry

\* The variables of one sequential caller of generate_result.
graderLocal == <<pc, safe_builtins, namespace, exc, result, callNo,
                 nAnswer, nTest, last, delegated, boundBy, assertsHeld>>

\* The variables the sequential grader leaves alone.
notGrader == <<workers, pipe, metrics, cfg, llm, fsys, cleaner, retrying>>

\* The variables the concurrent graders leave alone.
notWorkers == <<graderLocal, pipe, metrics, cfg, llm, fsys, cleaner, retrying>>

notPipe == <<hostBuiltins, graderLocal, workers, metrics, cfg, llm, fsys, cleaner, retrying>>

notMetrics == <<hostBuiltins, graderLocal, workers, pipe, cfg, llm, fsys, cleaner, retrying>>

notCfg == <<hostBuiltins, graderLocal, workers, pipe, metrics, llm, fsys, cleaner, retrying>>

notLlm == <<hostBuiltins, graderLocal, workers, pipe, metrics, cfg, fsys, cleaner, retrying>>

notFsys == <<hostBuiltins, graderLocal, workers, pipe, metrics, cfg, llm, cleaner, retrying>>

notCleaner == <<hostBuiltins, graderLocal, workers, pipe, metrics, cfg, llm, fsys, retrying>>

notRetrying == <<hostBuiltins, graderLocal, workers, pipe, metrics, cfg, llm, fsys, cleaner>>

vars == <<hostBuiltins, graderLocal, workers, pipe, metrics, cfg, llm, fsys, cleaner, retrying>>

----------------------------------------------------------------------------
(* Bounds *)

MaxCalls == 2   \* generate_result invocations in one behaviour
MaxStmts == 2   \* statements executed per code unit

----------------------------------------------------------------------------
(* Values of the interpreter *)

Unbound == <<>>
IntVal(v) == <<"int", v>>
ModVal(top) == <<"module", top>>
FnVal(f) == <<"function", f>>

\* Variable names graded code binds and reads, and the values it uses
\* ("result = 5 + 3", "assert result == 8", "secret_var = 42").
VarNames == {"result", "secret_var"}
Ints == {"7", "8"}

\* A denylist that also refuses a harmless module.
blocked_with_math ==
    {<<"os">>, <<"sys">>, <<"subprocess">>, <<"socket">>, <<"urllib">>, <<"requests">>,
     <<"math">>, <<"builtins">>}

\* The denylist of safe_import.  A module name is the sequence of its dotted
\* components, so that "os.path" differs from "os" as it does for Python's
\* set membership on strings.
blocked ==
    {<<"os">>, <<"sys">>, <<"subprocess">>, <<"socket">>, <<"urllib">>, <<"requests">>}

\* Modules the real import mechanism can find on the host.
InstalledModules ==
    {<<"os">>, <<"os", "path">>, <<"sys">>, <<"subprocess">>, <<"socket">>,
     <<"urllib">>, <<"urllib", "request">>, <<"math">>, <<"builtins">>}

\* Module names graded code asks for: the installed ones, the denylisted
\* ones, a name that differs from a denylisted one in letter case only, and
\* a module that does not exist.
ModuleNames == InstalledModules \cup blocked \cup {<<"OS">>, <<"nomod">>}

\* The part of a dotted module name before the first dot.
Top(name) == name[1]

\* Keys of the host's built-ins mapping: the import hook, one representative
\* default built-in, and whatever names code adds through the builtins module.
BuiltinKeys == {"__import__", "len"} \cup VarNames

\* Keys of an execution namespace other than "__builtins__".
NsKeys == VarNames \cup {Top(m) : m \in InstalledModules}

\* The namespace {"__builtins__": safe_builtins} holds no other key.
EmptyNamespace == [k \in NsKeys |-> Unbound]

----------------------------------------------------------------------------
(* Exceptions *)

NoExc == [kind |-> "none", arg |-> <<>>]
Exc(kind, arg) == [kind |-> kind, arg |-> arg]

\* Exception classes that derive from Exception; SystemExit derives from
\* BaseException only.
ExceptionKinds ==
    {"AssertionError", "ImportError", "ModuleNotFoundError", "SyntaxError",
     "ZeroDivisionError", "NameError", "TypeError"}
FaultKinds == {"ZeroDivisionError", "TypeError", "SystemExit"}

----------------------------------------------------------------------------
(* The Import Guard *)

\* The host's __import__(name, ...): finds the module and returns its
\* top-level package, or raises ModuleNotFoundError.
real_import(name) ==
    IF name \in InstalledModules
    THEN [exc |-> NoExc, ret |-> ModVal(Top(name)), deleg |-> {name}]
    ELSE [exc |-> Exc("ModuleNotFoundError", name), ret |-> Unbound, deleg |-> {name}]

\* A guard that compares module names without regard to letter case.
safe_import_case_insensitive(name) ==
    IF name \in blocked \cup {<<"OS">>}
    THEN [exc |-> Exc("ImportError", name), ret |-> Unbound, deleg |-> {}]
    ELSE real_import(name)

safe_import(name) ==
    IF name \in blocked
    THEN [exc |-> Exc("ImportError", name), ret |-> Unbound, deleg |-> {}]
    ELSE real_import(name)

\* An import statement calls the "__import__" entry of the namespace's built-ins.
ImportHook(sb, name) ==
    IF sb["__import__"] = FnVal("safe_import") THEN safe_import(name) ELSE real_import(name)

----------------------------------------------------------------------------
(* Statements of graded code *)

Stmt(op, name, val, mod) == [op |-> op, name |-> name, val |-> val, mod |-> mod]

Stmts ==
         {Stmt("assign", n, IntVal(v), <<>>) : n \in VarNames, v \in Ints}          \* n = v
    \cup {Stmt("assert_eq", n, IntVal(v), <<>>) : n \in VarNames, v \in Ints}       \* assert n == v
    \cup {Stmt("assert_absent", n, Unbound, <<>>) : n \in VarNames}                 \* assert 'n' not in globals()
    \cup {Stmt("import", "", Unbound, m) : m \in ModuleNames}                       \* import m
    \cup {Stmt("fault", k, Unbound, <<>>) : k \in FaultKinds}                       \* 1 / 0, 1 + "a", raise SystemExit
    \cup {Stmt("setattr", n, IntVal(v), <<"builtins">>) : n \in VarNames, v \in Ints} \* builtins.n = v

NoStmt == [phase |-> "none", stmt |-> Stmt("none", "", Unbound, <<>>)]

\* Name resolution of module-level code: the globals, then the built-ins.
Lookup(ns, sb, n) ==
    IF ns[n] # Unbound THEN ns[n]
    ELSE IF n \in DOMAIN sb THEN sb[n] ELSE Unbound

\* One statement executed by exec(code, namespace): the namespace and the host
\* built-ins after it, the exception it raised, and the module names it handed
\* to the real import mechanism.
Step(ns, hb, e, d) == [ns |-> ns, hb |-> hb, exc |-> e, deleg |-> d]

ExecStmt(ns, sb, hb, s) ==
    CASE s.op = "assign" ->
            Step([ns EXCEPT ![s.name] = s.val], hb, NoExc, {})
      [] s.op = "assert_eq" ->
            IF Lookup(ns, sb, s.name) = Unbound
            THEN Step(ns, hb, Exc("NameError", <<s.name>>), {})
            ELSE IF Lookup(ns, sb, s.name) = s.val
                 THEN Step(ns, hb, NoExc, {})
                 ELSE Step(ns, hb, Exc("AssertionError", <<>>), {})
      [] s.op = "assert_absent" ->
            IF ns[s.name] = Unbound
            THEN Step(ns, hb, NoExc, {})
            ELSE Step(ns, hb, Exc("AssertionError", <<>>), {})
      [] s.op = "import" ->
            LET r == ImportHook(sb, s.mod) IN
            IF r.exc = NoExc
            THEN Step([ns EXCEPT ![Top(s.mod)] = r.ret], hb, NoExc, r.deleg)
            ELSE Step(ns, hb, r.exc, r.deleg)
      [] s.op = "fault" ->
            Step(ns, hb, Exc(s.name, <<>>), {})
      [] s.op = "setattr" ->
            IF ns[Top(s.mod)] = Unbound
            THEN Step(ns, hb, Exc("NameError", <<Top(s.mod)>>), {})
            ELSE Step(ns, [hb EXCEPT ![s.name] = s.val], NoExc, {})

----------------------------------------------------------------------------
(* generate_result *)

\* The built-ins of the host process when the tester module is loaded.
HostBuiltins0 ==
    [k \in BuiltinKeys |->
        IF k = "__import__" THEN FnVal("__import__")
        ELSE IF k = "len" THEN FnVal("len") ELSE Unbound]

GraderInit ==
    /\ hostBuiltins = HostBuiltins0
    /\ pc = "idle"
    /\ safe_builtins = [k \in BuiltinKeys |-> Unbound]
    /\ namespace = EmptyNamespace
    /\ exc = NoExc
    /\ result = "none"
    /\ callNo = 0
    /\ nAnswer = 0
    /\ nTest = 0
    /\ last = NoStmt
    /\ delegated = {}
    /\ boundBy = [n \in VarNames |-> "none"]
    /\ assertsHeld = 0

\* Built-ins reduced to the import hook.
SafeBuiltins_import_only(hb) ==
    [k \in DOMAIN hb |-> IF k = "__import__" THEN FnVal("safe_import") ELSE Unbound]

\* dict(__builtins__) with the "__import__" entry replaced.
SafeBuiltins(hb) == [hb EXCEPT !["__import__"] = FnVal("safe_import")]

\* The namespace built by line 23.
FreshNamespace == EmptyNamespace

\* Lines 20-23: a call builds safe_builtins and the namespace.
Call ==
    /\ pc \in {"idle", "done"}
    /\ callNo < MaxCalls
    /\ callNo' = callNo + 1
    /\ safe_builtins' = SafeBuiltins(hostBuiltins)
    /\ namespace' = FreshNamespace
    /\ pc' = "created"
    /\ exc' = NoExc
    /\ result' = "none"
    /\ nAnswer' = 0
    /\ nTest' = 0
    /\ last' = NoStmt
    /\ delegated' = {}
    /\ boundBy' = [n \in VarNames |-> "none"]
    /\ assertsHeld' = 0
    /\ UNCHANGED hostBuiltins
    /\ UNCHANGED notGrader

\* Line 25, entry of exec(answer.content, namespace): the code is compiled.
StartAnswer ==
    /\ pc = "created"
    /\ \E valid \in BOOLEAN :
          IF valid
          THEN pc' = "answer" /\ exc' = exc
          ELSE pc' = "raised" /\ exc' = Exc("SyntaxError", <<>>)
    /\ UNCHANGED <<hostBuiltins, safe_builtins, namespace, result, callNo,
                   nAnswer, nTest, last, delegated, boundBy, assertsHeld>>
    /\ UNCHANGED notGrader

\* The bookkeeping of one executed statement.
Bound(phase, s, r) ==
    IF s.op = "assign" /\ r.exc = NoExc THEN [boundBy EXCEPT ![s.name] = phase] ELSE boundBy

\* Line 25: the next statement of the answer code.
AnswerStmt ==
    /\ pc = "answer"
    /\ nAnswer < MaxStmts
    /\ \E s \in Stmts :
          LET r == ExecStmt(namespace, safe_builtins, hostBuiltins, s) IN
          /\ namespace' = r.ns
          /\ hostBuiltins' = r.hb
          /\ exc' = r.exc
          /\ pc' = IF r.exc = NoExc THEN "answer" ELSE "raised"
          /\ delegated' = delegated \cup r.deleg
          /\ last' = [phase |-> "answer", stmt |-> s]
          /\ boundBy' = Bound("answer", s, r)
    /\ nAnswer' = nAnswer + 1
    /\ UNCHANGED <<safe_builtins, result, callNo, nTest, assertsHeld>>
    /\ UNCHANGED notGrader

\* A grader that runs the test code in a namespace of its own.
TestNamespace_fresh(ns) == FreshNamespace

\* The namespace handed to exec(test.content, namespace).
TestNamespace(ns) == ns

\* A grader that goes on to the test code after the answer code raised.
StartTest_after_raise ==
    /\ pc \in {"answer", "raised"}
    /\ namespace' = namespace
    /\ pc' = "test"
    /\ exc' = NoExc
    /\ UNCHANGED <<hostBuiltins, safe_builtins, result, callNo,
                   nAnswer, nTest, last, delegated, boundBy, assertsHeld>>
    /\ UNCHANGED notGrader

\* Line 26, entry of exec(test.content, namespace), once the answer code has
\* run to its end: the test code is compiled.
StartTest ==
    /\ pc = "answer"
    /\ namespace' = TestNamespace(namespace)
    /\ \E valid \in BOOLEAN :
          IF valid
          THEN pc' = "test" /\ exc' = exc
          ELSE pc' = "raised" /\ exc' = Exc("SyntaxError", <<>>)
    /\ UNCHANGED <<hostBuiltins, safe_builtins, result, callNo,
                   nAnswer, nTest, last, delegated, boundBy, assertsHeld>>
    /\ UNCHANGED notGrader

\* Line 26: the next statement of the test code.
TestStmt ==
    /\ pc = "test"
    /\ nTest < MaxStmts
    /\ \E s \in Stmts :
          LET r == ExecStmt(namespace, safe_builtins, hostBuiltins, s) IN
          /\ namespace' = r.ns
          /\ hostBuiltins' = r.hb
          /\ exc' = r.exc
          /\ pc' = IF r.exc = NoExc THEN "test" ELSE "raised"
          /\ delegated' = delegated \cup r.deleg
          /\ last' = [phase |-> "test", stmt |-> s]
          /\ boundBy' = Bound("test", s, r)
          /\ assertsHeld' = IF s.op \in {"assert_eq", "assert_absent"} /\ r.exc = NoExc
                            THEN assertsHeld + 1 ELSE assertsHeld
    /\ nTest' = nTest + 1
    /\ UNCHANGED <<safe_builtins, result, callNo, nAnswer>>
    /\ UNCHANGED notGrader

\* A grader whose success path returns the wrong boolean.
ReturnValue_false == "false"

\* The value line 27 returns.
ReturnValue == "true"

\* Line 27: the test code has run to its end.
ReturnTrue ==
    /\ pc = "test"
    /\ pc' = "done"
    /\ result' = ReturnValue
    /\ UNCHANGED <<hostBuiltins, safe_builtins, namespace, exc, callNo,
                   nAnswer, nTest, last, delegated, boundBy, assertsHeld>>
    /\ UNCHANGED notGrader

\* A grader without the except AssertionError clause and whose catch-all
\* does not cover assertion failures.
Handler_no_assert_clause(e) ==
    IF e.kind \in ExceptionKinds \ {"AssertionError"} THEN "false" ELSE "raise"

\* A grader whose catch-all clause reports success.
Handler_catch_all_true(e) ==
    IF e.kind = "AssertionError" THEN "false"
    ELSE IF e.kind \in ExceptionKinds THEN "true"
    ELSE "raise"

\* A grader that lets assertion failures leave the call.
Handler_assert_reraised(e) ==
    IF e.kind = "AssertionError" THEN "raise"
    ELSE IF e.kind \in ExceptionKinds THEN "false"
    ELSE "raise"

\* Lines 28-33: the except clauses, tried in order.
Handler(e) ==
    IF e.kind = "AssertionError" THEN "false"       \* except AssertionError: return False
    ELSE IF e.kind \in ExceptionKinds THEN "false"  \* except Exception: return False
    ELSE "raise"                                    \* no clause matches: the exception leaves the call

Handle ==
    /\ pc = "raised"
    /\ pc' = "done"
    /\ result' = Handler(exc)
    /\ UNCHANGED <<hostBuiltins, safe_builtins, namespace, exc, callNo,
                   nAnswer, nTest, last, delegated, boundBy, assertsHeld>>
    /\ UNCHANGED notGrader

Next ==
    \/ Call
    \/ StartAnswer
    \/ AnswerStmt
    \/ StartTest
    \/ TestStmt
    \/ ReturnTrue
    \/ Handle

----------------------------------------------------------------------------
TypeOK ==
    /\ pc \in {"idle", "created", "answer", "test", "raised", "done"}
    /\ result \in {"none", "true", "false", "raise"}
    /\ callNo \in 0..MaxCalls
    /\ nAnswer \in 0..MaxStmts
    /\ nTest \in 0..MaxStmts

----------------------------------------------------------------------------
(* Concurrent invocations of generate_result, one per worker thread.  The   *)
(* threads share the host process, and with it the host's built-ins.        *)

NumWorkers == 2      \* worker threads
MaxConcStmts == 1    \* statements executed per code unit of a concurrent invocation
Workers == 1..NumWorkers

\* The statements the concurrent invocations execute.
ConcStmts ==
    {s \in Stmts :
        \/ s.op \in {"assign", "assert_eq", "setattr"} /\ s.name = "secret_var" /\ s.val = IntVal("8")
        \/ s.op = "import" /\ s.mod = <<"builtins">>
        \/ s.op = "fault" /\ s.name = "SystemExit"}

\* The built-ins an invocation gets when nothing else has run in the process.
SoloBuiltins == SafeBuiltins(HostBuiltins0)

\* A worker before its call; solo_ns and solo_exc follow the same code run
\* alone in a process of its own.
WorkerInit ==
    [pc |-> "idle", sb |-> [k \in BuiltinKeys |-> Unbound], ns |-> EmptyNamespace,
     exc |-> NoExc, result |-> "none", nA |-> 0, nT |-> 0,
     solo_ns |-> EmptyNamespace, solo_exc |-> NoExc]

ConcInit == workers = [w \in Workers |-> WorkerInit]

\* Lines 20-23 on worker w.
WCall(w) ==
    /\ workers[w].pc = "idle"
    /\ workers' = [workers EXCEPT ![w] =
                      [@ EXCEPT !.pc = "created",
                                !.sb = SafeBuiltins(hostBuiltins),
                                !.ns = FreshNamespace]]
    /\ UNCHANGED hostBuiltins
    /\ UNCHANGED notWorkers

\* Entry of exec() on worker w: compilation of the code unit, which goes to
\* phase next when it compiles.
WCompile(w, from, next) ==
    /\ workers[w].pc = from
    /\ \E valid \in BOOLEAN :
          workers' = [workers EXCEPT ![w] =
              [@ EXCEPT !.pc = IF valid THEN next ELSE "raised",
                        !.exc = IF valid THEN @ ELSE Exc("SyntaxError", <<>>),
                        !.solo_exc = IF valid \/ @ # NoExc THEN @ ELSE Exc("SyntaxError", <<>>)]]
    /\ UNCHANGED hostBuiltins
    /\ UNCHANGED notWorkers

\* Line 25, entry of exec(answer.content, namespace), on worker w.
WStartAnswer(w) == WCompile(w, "created", "answer")

\* Line 26, entry of exec(test.content, namespace), on worker w.
WStartTest(w) == WCompile(w, "answer", "test")

\* One statement of worker w's code in phase ph.
WStmt(w, ph) ==
    /\ workers[w].pc = ph
    /\ (IF ph = "answer" THEN workers[w].nA ELSE workers[w].nT) < MaxConcStmts
    /\ \E s \in ConcStmts :
          LET me == workers[w]
              r == ExecStmt(me.ns, me.sb, hostBuiltins, s)
              q == ExecStmt(me.solo_ns, SoloBuiltins, HostBuiltins0, s)
          IN  /\ workers' = [workers EXCEPT ![w] =
                     [@ EXCEPT !.ns = r.ns,
                               !.exc = r.exc,
                               !.pc = IF r.exc = NoExc THEN ph ELSE "raised",
                               !.nA = IF ph = "answer" THEN @ + 1 ELSE @,
                               !.nT = IF ph = "test" THEN @ + 1 ELSE @,
                               !.solo_ns = IF me.solo_exc = NoExc THEN q.ns ELSE @,
                               !.solo_exc = IF me.solo_exc = NoExc THEN q.exc ELSE @]]
              /\ hostBuiltins' = r.hb
    /\ UNCHANGED notWorkers

\* Line 25: the next statement of worker w's answer code.
WAnswerStmt(w) == WStmt(w, "answer")

\* Line 26: the next statement of worker w's test code.
WTestStmt(w) == WStmt(w, "test")

\* Line 27 on worker w.
WReturnTrue(w) ==
    /\ workers[w].pc = "test"
    /\ workers' = [workers EXCEPT ![w] = [@ EXCEPT !.pc = "done", !.result = ReturnValue]]
    /\ UNCHANGED hostBuiltins
    /\ UNCHANGED notWorkers

\* Lines 28-33 on worker w.
WHandle(w) ==
    /\ workers[w].pc = "raised"
    /\ workers' = [workers EXCEPT ![w] = [@ EXCEPT !.pc = "done", !.result = Handler(workers[w].exc)]]
    /\ UNCHANGED hostBuiltins
    /\ UNCHANGED notWorkers

\* What generate_result gives for worker w's code when it runs alone.
SoloResult(w) ==
    IF workers[w].solo_exc # NoExc THEN Handler(workers[w].solo_exc)
    ELSE IF workers[w].exc = NoExc THEN ReturnValue
    ELSE "none"

NextConc ==
    \E w \in Workers :
        \/ WCall(w)
        \/ WStartAnswer(w)
        \/ WAnswerStmt(w)
        \/ WStartTest(w)
        \/ WTestStmt(w)
        \/ WReturnTrue(w)
        \/ WHandle(w)

----------------------------------------------------------------------------
(* generate_result as a function of the code of an answer and a test *)

\* The text of a code unit: whether it compiles, and its statements.
CodeUnit(valid, stmts) == [valid |-> valid, stmts |-> stmts]

\* The statements of a code unit executed in order up to the first exception.
RECURSIVE RunStmts(_, _, _, _)
RunStmts(ns, sb, hb, stmts) ==
    IF stmts = <<>> THEN Step(ns, hb, NoExc, {})
    ELSE LET r == ExecStmt(ns, sb, hb, Head(stmts)) IN
         IF r.exc # NoExc THEN r ELSE RunStmts(r.ns, sb, r.hb, Tail(stmts))

\* exec(code, namespace)
ExecCode(ns, sb, hb, code) ==
    IF ~code.valid THEN Step(ns, hb, Exc("SyntaxError", <<>>), {})
    ELSE RunStmts(ns, sb, hb, code.stmts)

\* generate_result(answer, test) in a host whose built-ins are hb.
GenerateResult(hb, answer, test) ==
    LET sb == SafeBuiltins(hb)
        a == ExecCode(FreshNamespace, sb, hb, answer)
    IN  IF a.exc # NoExc THEN Handler(a.exc)
        ELSE LET t == ExecCode(TestNamespace(a.ns), sb, a.hb, test) IN
             IF t.exc # NoExc THEN Handler(t.exc) ELSE ReturnValue

----------------------------------------------------------------------------
(* The evaluation pipeline (src/evaluation.py) over the records of          *)
(* src/data_models.py                                                       *)

MaxTasks == 2   \* length of the task, answer and test sequences

\* "Placeholder content for answer Task_1" is not Python.
PlaceholderCode == CodeUnit(FALSE, <<>>)

\* Contents of the answers handed to the pipeline.
AnswerCodes ==
    {PlaceholderCode,
     CodeUnit(TRUE, <<Stmt("assign", "result", IntVal("8"), <<>>)>>),    \* result = 5 + 3
     CodeUnit(TRUE, <<Stmt("assign", "result", IntVal("7"), <<>>)>>)}    \* result = 5 + 2

\* Contents of the tests handed to the pipeline.
TestCodes ==
    {PlaceholderCode,
     CodeUnit(TRUE, <<Stmt("assert_eq", "result", IntVal("8"), <<>>)>>)} \* assert result == 8

\* The sequences over S of length at most n.
SeqsUpTo(S, n) == UNION {[1..k -> S] : k \in 0..n}

Min(a, b) == IF a <= b THEN a ELSE b

\* BaseEntity is strict (ConfigDict(strict=True)): a field declared
\* list[...] | None accepts a list and rejects a tuple.
StrictListField(kind) == IF kind = "list" THEN "ok" ELSE "ValidationError"

\* The results built by lines 194-204: one Result per position of
\* zip(tasks, answers, tests), each with passed=False.
ResultsTuple(tasks, answers, tests) ==
    [i \in 1..Min(Len(tasks), Min(Len(answers), Len(tests))) |->
        [task |-> tasks[i], answer |-> answers[i], test |-> tests[i], passed |-> FALSE]]

\* create_resultset(taskset, testset, answerset): the local results, and
\* what the construction of the Resultset from that tuple gives.
create_resultset(tasks, tests, answers) ==
    [results |-> ResultsTuple(tasks, answers, tests),
     outcome |-> StrictListField("tuple")]

PipeInit ==
    pipe = [op |-> "none", tasks |-> <<>>, answers |-> <<>>, tests |-> <<>>,
            results |-> <<>>, outcome |-> "none"]

\* A caller hands a taskset, a testset and an answerset to create_resultset.
CreateResultset ==
    /\ \E n \in 0..MaxTasks, answers \in SeqsUpTo(AnswerCodes, MaxTasks),
          tests \in SeqsUpTo(TestCodes, MaxTasks) :
          LET tasks == [i \in 1..n |-> i]
              r == create_resultset(tasks, tests, answers)
          IN pipe' = [op |-> "create_resultset", tasks |-> tasks, answers |-> answers,
                      tests |-> tests, results |-> r.results, outcome |-> r.outcome]
    /\ UNCHANGED notPipe

\* create_evaluation(): create_taskset hands a tuple of tasks to Taskset
\* (lines 63-80), so the pipeline stops there, before any answer exists.
CreateEvaluation ==
    /\ pipe' = [op |-> "create_evaluation", tasks |-> <<>>, answers |-> <<>>,
                tests |-> <<>>, results |-> <<>>, outcome |-> StrictListField("tuple")]
    /\ UNCHANGED notPipe

NextPipe ==
    \/ CreateResultset
    \/ CreateEvaluation

----------------------------------------------------------------------------
(* Python's float: IEEE 754 binary64, round to nearest, ties to even.  A    *)
(* positive float is a significand of Prec bits, most significant first and *)
(* leading bit 1, and the exponent e of its last bit: its value is          *)
(* bits * 2^e.  The operands of the metrics are small non-negative integers,*)
(* so no exponent leaves the normal range.                                  *)

Prec == 53

FZero == [bits |-> <<>>, e |-> 0]

Zeros(k) == [i \in 1..k |-> 0]

\* The binary digits of a natural number, without leading zeros.
RECURSIVE IntBits(_)
IntBits(n) == IF n = 0 THEN <<>> ELSE Append(IntBits(n \div 2), n % 2)

\* bits + 1: the trailing ones become zeros and the zero before them a one.
Incr(bits) ==
    LET zeros == {i \in DOMAIN bits : bits[i] = 0} IN
    IF zeros = {} THEN <<1>> \o Zeros(Len(bits))
    ELSE LET p == CHOOSE i \in zeros : \A j \in zeros : j <= i IN
         SubSeq(bits, 1, p - 1) \o <<1>> \o Zeros(Len(bits) - p)

\* The float nearest to bits * 2^e (plus a non-zero amount below the last
\* bit when sticky), bits having leading bit 1.
RoundToFloat(bits, e, sticky) ==
    LET L == Len(bits) IN
    IF L <= Prec
    THEN [bits |-> bits \o Zeros(Prec - L), e |-> e - (Prec - L)]
    ELSE LET kept == SubSeq(bits, 1, Prec)
             guard == bits[Prec + 1]
             rest == sticky \/ \E i \in (Prec + 2)..L : bits[i] = 1
             up == guard = 1 /\ (rest \/ kept[Prec] = 1)
             e2 == e + (L - Prec)
             inc == Incr(kept)
         IN  IF ~up THEN [bits |-> kept, e |-> e2]
             ELSE IF Len(inc) > Prec THEN [bits |-> SubSeq(inc, 1, Prec), e |-> e2 + 1]
             ELSE [bits |-> inc, e |-> e2]

\* float(n) for a natural number n below 2^31.
FromInt(n) == IF n = 0 THEN FZero ELSE RoundToFloat(IntBits(n), 0, FALSE)

\* 2^k modulo d, for d below 2^15.
RECURSIVE Pow2Mod(_, _)
Pow2Mod(k, d) ==
    IF k = 0 THEN 1 % d
    ELSE IF k % 2 = 1 THEN (2 * Pow2Mod(k - 1, d)) % d
    ELSE (Pow2Mod(k \div 2, d) * Pow2Mod(k \div 2, d)) % d

\* Long division: the remainder left after k more quotient bits of r / d,
\* for r < d.
RemAfter(r, d, k) == (r * Pow2Mod(k, d)) % d

\* Those k quotient bits.
RECURSIVE QuotBits(_, _, _)
QuotBits(r, d, k) ==
    IF k = 0 THEN <<>>
    ELSE IF k = 1 THEN (IF 2 * r >= d THEN <<1>> ELSE <<0>>)
    ELSE QuotBits(r, d, k \div 2)
             \o QuotBits(RemAfter(r, d, k \div 2), d, k - (k \div 2))

\* The least q with n * 2^q >= d.
RECURSIVE ShiftUp(_, _)
ShiftUp(n, d) == IF n >= d THEN 0 ELSE 1 + ShiftUp(2 * n, d)

\* The greatest p with d * 2^p <= n, for n >= d.
RECURSIVE ShiftDown(_, _)
ShiftDown(n, d) == IF n < 2 * d THEN 0 ELSE 1 + ShiftDown(n, 2 * d)

RECURSIVE Pow2(_)
Pow2(k) == IF k = 0 THEN 1 ELSE 2 * Pow2(k - 1)

\* float(n) / float(d) for natural numbers n and d > 0.
FDivInt(n, d) ==
    IF n = 0 THEN FZero
    ELSE LET p == IF n >= d THEN ShiftDown(n, d) ELSE 0 - ShiftUp(n, d)
             n0 == IF p < 0 THEN n * Pow2(0 - p) ELSE n
             d0 == IF p > 0 THEN d * Pow2(p) ELSE d
             r == n0 - d0
         IN  RoundToFloat(<<1>> \o QuotBits(r, d0, Prec), p - Prec, RemAfter(r, d0, Prec) # 0)

\* The number a bit sequence stands for; at most LimbBits bits.
RECURSIVE BitsValue(_)
BitsValue(bits) ==
    IF bits = <<>> THEN 0
    ELSE 2 * BitsValue(SubSeq(bits, 1, Len(bits) - 1)) + bits[Len(bits)]

\* The bits of a long multiplication are handled LimbBits at a time.
LimbBits == 16

\* The digits of bits * k + carry, for k and carry below 2^14.
RECURSIVE MulBits(_, _, _)
MulBits(bits, k, carry) ==
    IF Len(bits) <= LimbBits THEN IntBits(BitsValue(bits) * k + carry)
    ELSE LET cut == Len(bits) - LimbBits
             p == BitsValue(SubSeq(bits, cut + 1, Len(bits))) * k + carry
             low == IntBits(p % Pow2(LimbBits))
         IN  MulBits(SubSeq(bits, 1, cut), k, p \div Pow2(LimbBits))
                 \o Zeros(LimbBits - Len(low)) \o low

\* x * float(k) for a float x and a natural number k.
FMulInt(x, k) ==
    IF x = FZero \/ k = 0 THEN FZero
    ELSE RoundToFloat(MulBits(x.bits, k, 0), x.e, FALSE)

\* bits a <= bits b, for sequences of the same length.
BitsLe(a, b) ==
    \/ a = b
    \/ \E i \in DOMAIN a : a[i] < b[i] /\ \A j \in 1..(i - 1) : a[j] = b[j]

\* x <= y for non-negative floats.
FLe(x, y) ==
    IF x = FZero THEN TRUE
    ELSE IF y = FZero THEN FALSE
    ELSE IF x.e # y.e THEN x.e < y.e
    ELSE BitsLe(x.bits, y.bits)

----------------------------------------------------------------------------
(* The computed fields of Resultset (src/data_models.py).  results is the   *)
(* list of the passed flags of its Result records; None is "None".          *)

MaxResults == 6   \* results in a Resultset

None == "None"

\* if not self.results / if self.results: an empty list is falsy.
Truthy(results) == Len(results) > 0

Resultset_size(results) == IF Truthy(results) THEN Len(results) ELSE None

\* sum(1 for result in self.results if result.passed)
RECURSIVE CountPassed(_)
CountPassed(results) ==
    IF results = <<>> THEN 0
    ELSE (IF Head(results) THEN 1 ELSE 0) + CountPassed(Tail(results))

\* A count of all the results.
Resultset_number_passed_all(results) ==
    IF ~Truthy(results) THEN None ELSE Len(results)

Resultset_number_passed(results) ==
    IF ~Truthy(results) THEN None ELSE CountPassed(results)

Resultset_percentage_passed(results) ==
    IF ~Truthy(results) THEN None
    ELSE IF Resultset_size(results) # 0   \* if self.size: an int here, falsy when 0
         THEN FMulInt(FDivInt(Resultset_number_passed(results), Resultset_size(results)), 100)
         ELSE None

MetricsInit == metrics = <<>>

\* A Resultset with one more result.
AddResult ==
    /\ Len(metrics) < MaxResults
    /\ \E passed \in BOOLEAN : metrics' = Append(metrics, passed)
    /\ UNCHANGED notMetrics

\* A Resultset with its last result left out.
DropResult ==
    /\ Len(metrics) > 0
    /\ metrics' = SubSeq(metrics, 1, Len(metrics) - 1)
    /\ UNCHANGED notMetrics

NextMetrics ==
    \/ AddResult
    \/ DropResult

----------------------------------------------------------------------------
(* find_config_file (src/utils.py and src/config_utils.py).  A file name is *)
(* a sequence of characters, a character is a small natural number ordered  *)
(* as Python orders code points; the pattern "<prefix>*<suffix>" is the     *)
(* pair of its two literal parts.  All matches share the directory prefix,  *)
(* so sorted() orders the paths as it orders the names.                     *)

MaxNameLen == 2   \* characters in a file name
MaxFiles == 2     \* files in the configuration directory

Chars == {1, 2}

RECURSIVE NamesUpTo(_)
NamesUpTo(n) ==
    IF n = 0 THEN {<<>>}
    ELSE LET shorter == NamesUpTo(n - 1) IN
         shorter \cup {Append(s, c) : s \in shorter, c \in Chars}

FileNames == NamesUpTo(MaxNameLen) \ {<<>>}

Patterns == [prefix : NamesUpTo(1), suffix : NamesUpTo(1)]

\* fnmatch of a name against prefix*suffix
Matches(name, pattern) ==
    LET p == pattern.prefix
        s == pattern.suffix
    IN  /\ Len(name) >= Len(p) + Len(s)
        /\ SubSeq(name, 1, Len(p)) = p
        /\ SubSeq(name, Len(name) - Len(s) + 1, Len(name)) = s

\* glob.glob: the files of the directory that match, in no particular order.
Glob(files, pattern) == {f \in files : Matches(f, pattern)}

\* a < b as Python compares strings
RECURSIVE StrLess(_, _)
StrLess(a, b) ==
    IF b = <<>> THEN FALSE
    ELSE IF a = <<>> THEN TRUE
    ELSE IF Head(a) # Head(b) THEN Head(a) < Head(b)
    ELSE StrLess(Tail(a), Tail(b))

\* sorted(): the elements of a set of names in ascending order.
RECURSIVE SortedNames(_)
SortedNames(S) ==
    IF S = {} THEN <<>>
    ELSE LET least == CHOOSE m \in S : \A o \in S \ {m} : StrLess(m, o)
         IN  <<least>> \o SortedNames(S \ {least})

Returned(value) == [kind |-> "return", value |-> value, exc |-> "none", msg |-> <<>>]

Raised(e, msg) == [kind |-> "raise", value |-> <<>>, exc |-> e, msg |-> msg]

NotCalled == [kind |-> "none", value |-> <<>>, exc |-> "none", msg |-> <<>>]

\* src/utils.py: matches[0] without a check.
find_config_file(files, pattern) ==
    LET matches == SortedNames(Glob(files, pattern)) IN
    IF Len(matches) = 0
    THEN Raised("IndexError", <<"list index out of range">>)
    ELSE Returned(matches[1])

\* src/config_utils.py: raises FileNotFoundError when nothing matches.
config_utils_find_config_file(files, pattern) ==
    LET matches == SortedNames(Glob(files, pattern)) IN
    IF Len(matches) = 0
    THEN Raised("FileNotFoundError", <<"No config file matching pattern", pattern>>)
    ELSE Returned(matches[1])

CfgInit ==
    cfg = [files |-> {}, pattern |-> [prefix |-> <<>>, suffix |-> <<>>],
           utils |-> NotCalled, config_utils |-> NotCalled]

\* A file appears in the directory.
CreateFile ==
    /\ Cardinality(cfg.files) < MaxFiles
    /\ \E f \in FileNames \ cfg.files :
           cfg' = [cfg EXCEPT !.files = @ \cup {f},
                              !.utils = NotCalled, !.config_utils = NotCalled]
    /\ UNCHANGED notCfg

\* A file is removed from the directory.
RemoveFile ==
    /\ \E f \in cfg.files :
           cfg' = [cfg EXCEPT !.files = @ \ {f},
                              !.utils = NotCalled, !.config_utils = NotCalled]
    /\ UNCHANGED notCfg

\* A call of find_config_file(configs_dir, pattern), in both modules.
FindConfigFile ==
    /\ \E pattern \in Patterns :
           cfg' = [cfg EXCEPT !.pattern = pattern,
                              !.utils = find_config_file(cfg.files, pattern),
                              !.config_utils = config_utils_find_config_file(cfg.files, pattern)]
    /\ UNCHANGED notCfg

NextConfig ==
    \/ CreateFile
    \/ RemoveFile
    \/ FindConfigFile

----------------------------------------------------------------------------
(* generate_answer (src/llm.py).  A provider string is a lower-case word    *)
(* and the set of its positions written in upper case, so "OpenAI" and      *)
(* "openai" are different strings with the same lower().  generate_answer   *)
(* is declared async def: calling it runs none of its body and returns a    *)
(* coroutine; the body runs when the coroutine is awaited.                  *)

NumCasePositions == 3   \* letters of a provider name whose case varies

Words == {"openai", "anthropic", "google"}

ProviderStrings == [word : Words, caps : SUBSET (1..NumCasePositions)]

\* str.lower()
Lower(s) == [s EXCEPT !.caps = {}]

\* The literal "openai" of the case clause.
OpenAILiteral == [word |-> "openai", caps |-> {}]

LlmTasks == {"task_add", "task_reverse"}

\* What awaiting generate_openai_answer(agent, task) can end with: the
\* cleaned output text, RuntimeError for an API error, or RateLimitError
\* re-raised once the retries are used up.
OpenAIOutcomes(task) ==
    {Returned(<<"answer for", task>>),
     Raised("RuntimeError", <<"Error generating answer using OpenAI API: ">>),
     Raised("RateLimitError", <<>>)}

Coroutine == Returned(<<"coroutine generate_answer">>)

LlmInit ==
    llm = [provider |-> OpenAILiteral, task |-> "task_add", co |-> "none",
           call_out |-> NotCalled, await_out |-> NotCalled,
           openai_calls |-> 0, openai_out |-> NotCalled]

\* generate_answer(agent, task), called as a plain function.
GenerateAnswerCall ==
    /\ \E provider \in ProviderStrings, task \in LlmTasks :
           llm' = [provider |-> provider, task |-> task, co |-> "created",
                   call_out |-> Coroutine, await_out |-> NotCalled,
                   openai_calls |-> 0, openai_out |-> NotCalled]
    /\ UNCHANGED notLlm

\* await of that coroutine: the body of generate_answer runs.
GenerateAnswerAwait ==
    /\ llm.co = "created"
    /\ LET provider == Lower(llm.provider) IN
       IF provider = OpenAILiteral
       THEN \E out \in OpenAIOutcomes(llm.task) :
                llm' = [llm EXCEPT !.co = "done", !.await_out = out,
                                   !.openai_calls = @ + 1, !.openai_out = out]
       ELSE llm' = [llm EXCEPT !.co = "done",
                               !.await_out = Raised("ValueError",
                                   <<"Unsupported model provider: ", llm.provider>>)]
    /\ UNCHANGED notLlm

NextLlm ==
    \/ GenerateAnswerCall
    \/ GenerateAnswerAwait

----------------------------------------------------------------------------
(* The data models (src/data_models.py) and their JSON form                 *)
(* (src/json_utils.py, src/utils.py).  A model value is a function from its *)
(* declared fields to their values; an optional field is a record saying    *)
(* whether it is set.  A JSON value is a tagged tuple: <<"null">>,          *)
(* <<"string", s>>, <<"bool", b>>, <<"int", n>>, <<"float", x>>,            *)
(* <<"array", seq>> or <<"object", fields>>.                                *)

MaxItems == 2   \* entries in the list of a set-like model

Types ==
    {"Language", "Library", "Task", "Taskset", "Test", "Testset", "Model",
     "Agent", "Answer", "Answerset", "Result", "Resultset", "Benchmark",
     "Evaluation"}

\* BaseEntity: name, version, description.
Base == [name |-> <<"str">>, version |-> <<"str">>, description |-> <<"str">>]

\* The declared fields of each class and their kinds: "str", "optstr"
\* (str | None = None), "defbool" (bool = False), "model" (a nested class)
\* and "optlist" (list[...] | None = None).
Schema ==
    [Language   |-> Base,
     Library    |-> Base @@ [language |-> <<"model", "Language">>],
     Task       |-> Base @@ [library |-> <<"model", "Library">>, content |-> <<"str">>],
     Taskset    |-> Base @@ [library |-> <<"model", "Library">>,
                             tasks |-> <<"optlist", "Task">>],
     Test       |-> Base @@ [task |-> <<"model", "Task">>, content |-> <<"str">>],
     Testset    |-> Base @@ [taskset |-> <<"model", "Taskset">>,
                             tests |-> <<"optlist", "Test">>],
     Model      |-> Base @@ [provider |-> <<"str">>],
     Agent      |-> Base @@ [model |-> <<"model", "Model">>,
                             configuration |-> <<"optstr">>,
                             scaffolding |-> <<"optstr">>],
     Answer     |-> Base @@ [agent |-> <<"model", "Agent">>,
                             task |-> <<"model", "Task">>, content |-> <<"str">>],
     Answerset  |-> Base @@ [agent |-> <<"model", "Agent">>,
                             taskset |-> <<"model", "Taskset">>,
                             answers |-> <<"optlist", "Answer">>],
     Result     |-> Base @@ [answer |-> <<"model", "Answer">>,
                             test |-> <<"model", "Test">>, passed |-> <<"defbool">>],
     Resultset  |-> Base @@ [taskset |-> <<"model", "Taskset">>,
                             testset |-> <<"model", "Testset">>,
                             answerset |-> <<"model", "Answerset">>,
                             results |-> <<"optlist", "Result">>],
     Benchmark  |-> Base @@ [library |-> <<"model", "Library">>,
                             resultsets |-> <<"optlist", "Resultset">>],
     Evaluation |-> Base @@ [language |-> <<"model", "Language">>,
                             library |-> <<"model", "Library">>,
                             taskset |-> <<"model", "Taskset">>,
                             testset |-> <<"model", "Testset">>,
                             model |-> <<"model", "Model">>,
                             agent |-> <<"model", "Agent">>,
                             answerset |-> <<"model", "Answerset">>,
                             resultset |-> <<"model", "Resultset">>,
                             benchmark |-> <<"model", "Benchmark">>]]

\* The @computed_field properties of each class.
ComputedFields(T) ==
    CASE T \in {"Taskset", "Testset", "Answerset"} -> {"size"}
      [] T = "Resultset" -> {"size", "number_passed", "percentage_passed"}
      [] T = "Benchmark" -> {"size", "total_size", "number_passed", "percentage_passed"}
      [] OTHER -> {}

\* The fields without a default.
Required(T) ==
    {k \in DOMAIN Schema[T] : Schema[T][k][1] \in {"str", "model"}}

OptNone == [some |-> FALSE, val |-> <<>>]

Some(v) == [some |-> TRUE, val |-> v]

\* The values the model works with: every class is built, as the pipeline
\* builds it, around one name and one optional list of pass flags.
EntityNames == {"a"}

Seeds ==
    [name : EntityNames,
     items : {OptNone} \cup {Some(f) : f \in SeqsUpTo(BOOLEAN, MaxItems)}]

Entity(s) == [name |-> s.name, version |-> "1.0", description |-> "d"]

\* The value of class T built around seed s; f is the pass flag of the
\* list entry the value belongs to.
RECURSIVE Mk(_, _, _)
Mk(T, s, f) ==
    LET Items(U) ==
            IF s.items.some
            THEN Some([i \in DOMAIN s.items.val |-> Mk(U, s, s.items.val[i])])
            ELSE OptNone
    IN
    Entity(s) @@
    CASE T = "Language" -> <<>>
      [] T = "Library" -> [language |-> Mk("Language", s, f)]
      [] T = "Task" ->
            [library |-> Mk("Library", s, f),
             content |-> IF f THEN "compute 5 + 3" ELSE "compute 5 * 3"]
      [] T = "Taskset" -> [library |-> Mk("Library", s, f), tasks |-> Items("Task")]
      [] T = "Test" -> [task |-> Mk("Task", s, f), content |-> "assert result == 8"]
      [] T = "Testset" -> [taskset |-> Mk("Taskset", s, f), tests |-> Items("Test")]
      [] T = "Model" -> [provider |-> "openai"]
      [] T = "Agent" ->
            [model |-> Mk("Model", s, f), configuration |-> OptNone,
             scaffolding |-> Some("scaffold")]
      [] T = "Answer" ->
            [agent |-> Mk("Agent", s, f), task |-> Mk("Task", s, f),
             content |-> IF f THEN "result = 5 + 3" ELSE "result = 5 * 3"]
      [] T = "Answerset" ->
            [agent |-> Mk("Agent", s, f), taskset |-> Mk("Taskset", s, f),
             answers |-> Items("Answer")]
      [] T = "Result" ->
            [answer |-> Mk("Answer", s, f), test |-> Mk("Test", s, f), passed |-> f]
      [] T = "Resultset" ->
            [taskset |-> Mk("Taskset", s, f), testset |-> Mk("Testset", s, f),
             answerset |-> Mk("Answerset", s, f), results |-> Items("Result")]
      [] T = "Benchmark" ->
            [library |-> Mk("Library", s, f),
             resultsets |-> Some(<<Mk("Resultset", s, f)>>)]
      [] T = "Evaluation" ->
            [language |-> Mk("Language", s, f), library |-> Mk("Library", s, f),
             taskset |-> Mk("Taskset", s, f), testset |-> Mk("Testset", s, f),
             model |-> Mk("Model", s, f), agent |-> Mk("Agent", s, f),
             answerset |-> Mk("Answerset", s, f), resultset |-> Mk("Resultset", s, f),
             benchmark |-> Mk("Benchmark", s, f)]

\* The seeds that give different values of class T: the pass flags matter
\* only to the classes that hold a list.
SeedsOf(T) ==
    IF T \in {"Taskset", "Testset", "Answerset", "Resultset", "Benchmark", "Evaluation"}
    THEN Seeds
    ELSE {s \in Seeds : s.items = OptNone}

\* The list of an optional list field as Python sees it in "if self.x".
ListOf(o) == IF o.some THEN o.val ELSE <<>>

\* len(self.x) if self.x else None
SizeJson(o) ==
    IF Truthy(ListOf(o)) THEN <<"int", Len(o.val)>> ELSE <<"null">>

\* The passed flags of the results of a Resultset value.
PassedFlags(rs) ==
    LET results == ListOf(rs.results) IN
    [i \in DOMAIN results |-> results[i].passed]

\* sum() of a sequence of numbers
RECURSIVE Sum(_)
Sum(seq) == IF seq = <<>> THEN 0 ELSE Head(seq) + Sum(Tail(seq))

\* Benchmark.total_size and Benchmark.number_passed add up the size and
\* number_passed of the resultsets; those are None for a Resultset without
\* results, and the sum then raises TypeError.
BenchmarkSumRaises(b) ==
    LET resultsets == ListOf(b.resultsets) IN
    \E i \in DOMAIN resultsets : ~Truthy(ListOf(resultsets[i].results))

Benchmark_total_size(b) ==
    LET resultsets == ListOf(b.resultsets) IN
    Sum([i \in DOMAIN resultsets |-> Len(ListOf(resultsets[i].results))])

Benchmark_number_passed(b) ==
    LET resultsets == ListOf(b.resultsets) IN
    Sum([i \in DOMAIN resultsets |-> CountPassed(PassedFlags(resultsets[i]))])

\* The value of a computed field in the dump of a value m of class T.
ComputedJson(T, k, m) ==
    CASE T = "Taskset" -> SizeJson(m.tasks)
      [] T = "Testset" -> SizeJson(m.tests)
      [] T = "Answerset" -> SizeJson(m.answers)
      [] T = "Resultset" ->
            IF k = "size" THEN SizeJson(m.results)
            ELSE IF ~Truthy(PassedFlags(m)) THEN <<"null">>
            ELSE IF k = "number_passed"
                 THEN <<"int", Resultset_number_passed(PassedFlags(m))>>
                 ELSE <<"float", Resultset_percentage_passed(PassedFlags(m))>>
      [] T = "Benchmark" ->
            IF k = "size" THEN SizeJson(m.resultsets)
            ELSE IF ~Truthy(ListOf(m.resultsets)) THEN <<"null">>
            ELSE IF k = "total_size" THEN <<"int", Benchmark_total_size(m)>>
            ELSE IF k = "number_passed" THEN <<"int", Benchmark_number_passed(m)>>
            ELSE IF Benchmark_total_size(m) # 0
                 THEN <<"float", FMulInt(FDivInt(Benchmark_number_passed(m),
                                                 Benchmark_total_size(m)), 100)>>
                 ELSE <<"null">>

\* The dump of a value m of class T: its declared fields and, when computed
\* is TRUE, its computed fields, nested values dumped the same way.
RECURSIVE DumpWith(_, _, _)
DumpWith(T, m, computed) ==
    LET keys == DOMAIN Schema[T] \cup (IF computed THEN ComputedFields(T) ELSE {}) IN
    <<"object",
      [k \in keys |->
          IF k \notin DOMAIN Schema[T] THEN ComputedJson(T, k, m)
          ELSE LET kind == Schema[T][k] IN
               CASE kind[1] = "str" -> <<"string", m[k]>>
                 [] kind[1] = "optstr" ->
                       IF m[k].some THEN <<"string", m[k].val>> ELSE <<"null">>
                 [] kind[1] = "defbool" -> <<"bool", m[k]>>
                 [] kind[1] = "model" -> DumpWith(kind[2], m[k], computed)
                 [] kind[1] = "optlist" ->
                       IF m[k].some
                       THEN <<"array", [i \in DOMAIN m[k].val |->
                                           DumpWith(kind[2], m[k].val[i], computed)]>>
                       ELSE <<"null">>]>>

\* Declared fields only.
DumpDeclared(T, m) == DumpWith(T, m, FALSE)

\* model_dump_json / model_dump: computed fields are part of the dump.
DumpModel(T, m) == DumpWith(T, m, TRUE)

\* The dump raises when a computed field does.
DumpRaises(T, m) ==
    \/ T = "Benchmark" /\ BenchmarkSumRaises(m)
    \/ T = "Evaluation" /\ BenchmarkSumRaises(m.benchmark)

\* Validation of a JSON value against class T under
\* ConfigDict(strict=True, extra="forbid"): an object whose keys are all
\* declared fields, with every required field present and every value of
\* the declared kind.
RECURSIVE ValidModel(_, _)
ValidModel(T, j) ==
    /\ j[1] = "object"
    /\ DOMAIN j[2] \subseteq DOMAIN Schema[T]
    /\ Required(T) \subseteq DOMAIN j[2]
    /\ \A k \in DOMAIN j[2] :
          LET kind == Schema[T][k]
              v == j[2][k]
          IN  CASE kind[1] = "str" -> v[1] = "string"
                [] kind[1] = "optstr" -> v[1] \in {"string", "null"}
                [] kind[1] = "defbool" -> v[1] = "bool"
                [] kind[1] = "model" -> ValidModel(kind[2], v)
                [] kind[1] = "optlist" ->
                      \/ v[1] = "null"
                      \/ /\ v[1] = "array"
                         /\ \A i \in DOMAIN v[2] : ValidModel(kind[2], v[2][i])

\* The value of class T a valid JSON value stands for.
RECURSIVE LoadModel(_, _)
LoadModel(T, j) ==
    [k \in DOMAIN Schema[T] |->
        LET kind == Schema[T][k] IN
        IF k \notin DOMAIN j[2]
        THEN (IF kind[1] = "defbool" THEN FALSE ELSE OptNone)
        ELSE LET v == j[2][k] IN
             CASE kind[1] = "str" -> v[2]
               [] kind[1] = "optstr" -> IF v[1] = "null" THEN OptNone ELSE Some(v[2])
               [] kind[1] = "defbool" -> v[2]
               [] kind[1] = "model" -> LoadModel(kind[2], v)
               [] kind[1] = "optlist" ->
                     IF v[1] = "null" THEN OptNone
                     ELSE Some([i \in DOMAIN v[2] |-> LoadModel(kind[2], v[2][i])])]

\* The content of the file: absent, text that is not JSON, or JSON text.
Missing == <<"missing">>

Garbage == <<"text", "{not json">>

JsonFile(j) == <<"json", j>>

\* JSON that is no evaluation.
ForeignJson == <<"object", [invalid |-> <<"string", "data">>]>>

NoValue == <<"None">>

\* model_class.model_validate_json(json_data)
model_validate_json(T, content) ==
    IF content[1] = "text"
    THEN Raised("ValidationError", <<"Invalid JSON">>)
    ELSE IF ValidModel(T, content[2])
    THEN Returned(LoadModel(T, content[2]))
    ELSE Raised("ValidationError", <<"validation errors for ", T>>)

\* deserialize_data_model(input_path, model_class): open, read, validate.
deserialize_data_model(content, T) ==
    IF content[1] = "missing"
    THEN Raised("FileNotFoundError", <<"No such file or directory">>)
    ELSE model_validate_json(T, content)

\* load_evaluation_from_file(file_path) (src/dashboard.py): the dump of the
\* deserialized Evaluation, or None when anything in the try block raises.
load_evaluation_from_file(content) ==
    LET loaded == deserialize_data_model(content, "Evaluation") IN
    IF loaded.kind = "raise" THEN Returned(NoValue)
    ELSE IF DumpRaises("Evaluation", loaded.value) THEN Returned(NoValue)
    ELSE Returned(DumpModel("Evaluation", loaded.value))

NotWritten == [some |-> FALSE, type |-> "Language", seed |-> [name |-> "a", items |-> OptNone]]

NoCall == [op |-> "none", type |-> "Language", out |-> NotCalled]

\* The cache of st.cache_data before the first call for the path.
NotCached == NotCalled

FsysInit ==
    fsys = [file |-> Missing, written |-> NotWritten, call |-> NoCall,
            cache |-> NotCached]

\* serialize_data_model(output_path, data_model): the dump is computed
\* first, so the file is left alone when the dump raises.
SerializeDataModel ==
    /\ \E T \in Types :
       \E s \in SeedsOf(T) :
          IF DumpRaises(T, Mk(T, s, TRUE))
          THEN fsys' = [fsys EXCEPT !.call =
                           [op |-> "serialize", type |-> T,
                            out |-> Raised("PydanticSerializationError",
                                           <<"Error serializing to JSON: TypeError">>)]]
          ELSE fsys' = [file |-> JsonFile(DumpModel(T, Mk(T, s, TRUE))),
                        written |-> [some |-> TRUE, type |-> T, seed |-> s],
                        cache |-> fsys.cache,
                        call |-> [op |-> "serialize", type |-> T,
                                  out |-> Returned(NoValue)]]
    /\ UNCHANGED notFsys

\* deserialize_data_model(input_path, model_class)
DeserializeDataModel ==
    /\ \E T \in Types :
          fsys' = [fsys EXCEPT !.call =
                      [op |-> "deserialize", type |-> T,
                       out |-> deserialize_data_model(fsys.file, T)]]
    /\ UNCHANGED notFsys

\* What something else can write to the file: text that is no JSON, JSON of
\* another shape, or an evaluation written out with its declared fields.
ForeignContents ==
    {Garbage, JsonFile(ForeignJson)}
        \cup {JsonFile(DumpDeclared("Evaluation", Mk("Evaluation", s, TRUE))) : s \in Seeds}

\* Something else writes the file.
WriteFile ==
    /\ \E content \in ForeignContents :
          fsys' = [file |-> content, written |-> NotWritten, call |-> NoCall,
                   cache |-> fsys.cache]
    /\ UNCHANGED notFsys

\* The file is deleted.
DeleteFile ==
    /\ fsys.file # Missing
    /\ fsys' = [file |-> Missing, written |-> NotWritten, call |-> NoCall,
                cache |-> fsys.cache]
    /\ UNCHANGED notFsys

\* A loader that runs its body at every call.
CachedCall_uncached(cache, content) == load_evaluation_from_file(content)

\* @st.cache_data: the body runs at the first call for a path and its return
\* value is kept; later calls for the path return the kept value.
CachedCall(cache, content) ==
    IF cache.kind = NotCached.kind THEN load_evaluation_from_file(content) ELSE cache

\* load_evaluation_from_file(file_path), as decorated
LoadEvaluationFromFile ==
    /\ fsys' = [fsys EXCEPT !.call =
                   [op |-> "load", type |-> "Evaluation",
                    out |-> CachedCall(fsys.cache, fsys.file)],
                            !.cache = CachedCall(fsys.cache, fsys.file)]
    /\ UNCHANGED notFsys

\* create_answerset(agent, taskset): a placeholder Answer per task,
\* collected in a tuple, and the Answerset built from that tuple.
create_answerset(agent, taskset) ==
    IF ~taskset.tasks.some
    THEN Raised("TypeError", <<"'NoneType' object is not iterable">>)
    ELSE LET tasks == taskset.tasks.val
             answers == [i \in DOMAIN tasks |->
                            [name |-> tasks[i].name, version |-> "1.0.0",
                             description |-> "Placeholder description for answer",
                             agent |-> agent, task |-> tasks[i],
                             content |-> "Placeholder content for answer"]]
         IN  IF StrictListField("tuple") = "ok"
             THEN Returned([name |-> "demo_answerset", version |-> "1.0.0",
                            description |-> "Answerset with placeholder answers",
                            agent |-> agent, taskset |-> taskset,
                            answers |-> Some(answers)])
             ELSE Raised("ValidationError", <<"Answerset.answers">>)

\* The Resultset create_resultset builds from a taskset, a testset and an
\* answerset given as model values.
ResultsetOf(taskset, testset, answerset) ==
    IF ~(taskset.tasks.some /\ testset.tests.some /\ answerset.answers.some)
    THEN Raised("TypeError", <<"'NoneType' object is not iterable">>)
    ELSE LET r == create_resultset(taskset.tasks.val, testset.tests.val,
                                   answerset.answers.val)
         IN  IF r.outcome = "ok"
             THEN Returned([name |-> "demo_resultset", version |-> "1.0.0",
                            description |-> "Resultset with placeholder results",
                            taskset |-> taskset, testset |-> testset,
                            answerset |-> answerset,
                            results |-> Some([i \in DOMAIN r.results |->
                                [name |-> r.results[i].task.name, version |-> "1.0.0",
                                 description |-> "Placeholder description for result",
                                 answer |-> r.results[i].answer,
                                 test |-> r.results[i].test,
                                 passed |-> r.results[i].passed]])])
             ELSE Raised(r.outcome, <<"Resultset.results">>)

\* create_benchmark(library, (resultset,)): the resultsets are a tuple.
create_benchmark(library, resultset) ==
    IF StrictListField("tuple") = "ok"
    THEN Returned([name |-> "demo_benchmark", version |-> "1.0.0",
                   description |-> "Benchmark with placeholder resultsets",
                   library |-> library, resultsets |-> Some(<<resultset>>)])
    ELSE Raised("ValidationError", <<"Benchmark.resultsets">>)

\* rerun_evaluation(input_path): the stored evaluation's inputs are loaded,
\* its answerset, resultset and benchmark are created anew.
rerun_evaluation(content) ==
    LET loaded == deserialize_data_model(content, "Evaluation") IN
    IF loaded.kind = "raise" THEN loaded
    ELSE LET e == loaded.value
             answerset == create_answerset(e.agent, e.taskset)
         IN  IF answerset.kind = "raise" THEN answerset
             ELSE LET resultset == ResultsetOf(e.taskset, e.testset, answerset.value) IN
                  IF resultset.kind = "raise" THEN resultset
                  ELSE LET benchmark == create_benchmark(e.library, resultset.value) IN
                       IF benchmark.kind = "raise" THEN benchmark
                       ELSE Returned([e EXCEPT !.answerset = answerset.value,
                                               !.resultset = resultset.value,
                                               !.benchmark = benchmark.value])

\* rerun_evaluation(input_path)
RerunEvaluation ==
    /\ fsys' = [fsys EXCEPT !.call =
                   [op |-> "rerun", type |-> "Evaluation",
                    out |-> rerun_evaluation(fsys.file)]]
    /\ UNCHANGED notFsys

NextFiles ==
    \/ SerializeDataModel
    \/ DeserializeDataModel
    \/ WriteFile
    \/ DeleteFile
    \/ RerunEvaluation

NextDashboard ==
    \/ WriteFile
    \/ DeleteFile
    \/ LoadEvaluationFromFile

----------------------------------------------------------------------------
(* clean_code (src/utils.py, src/json_utils.py).  A text is a sequence of   *)
(* characters; one character stands for each class the patterns tell apart: *)
(* the backtick, the blank (space or tab), a character of                   *)
(* [A-Za-z0-9_+\-], and any other character (the newline).                  *)

MaxText == 6   \* characters of a text

Backtick == "backtick"
Blanks == {" "}
LangChars == {"p"}
TextChars == {Backtick, "\n"} \cup Blanks \cup LangChars

\* Three backticks start at position i of text.
FenceAt(text, i) ==
    /\ i + 2 <= Len(text)
    /\ text[i] = Backtick /\ text[i + 1] = Backtick /\ text[i + 2] = Backtick

\* The first position from i on whose character is not in chars (greedy
\* star: as many characters as there are).
SkipWhile(text, i, chars) ==
    IF \E j \in i..Len(text) : text[j] \notin chars
    THEN CHOOSE j \in i..Len(text) :
            text[j] \notin chars /\ \A k \in i..(j - 1) : text[k] \in chars
    ELSE Len(text) + 1

\* A pattern that asks for at least one language character after the fence.
FenceEnd_language_required(text, i, lang) ==
    IF lang /\ SkipWhile(text, SkipWhile(text, i + 3, Blanks), LangChars)
                  > SkipWhile(text, i + 3, Blanks)
    THEN SkipWhile(text, SkipWhile(text, i + 3, Blanks), LangChars)
    ELSE IF lang THEN 0 ELSE i + 3

\* Where a match that starts at i ends (the position after it), or 0 when
\* none starts there; lang tells the pattern r"```[ \t]*[A-Za-z0-9_+\-]*"
\* from the pattern r"```".
FenceEnd(text, i, lang) ==
    IF lang
    THEN SkipWhile(text, SkipWhile(text, i + 3, Blanks), LangChars)
    ELSE i + 3

\* re.sub(pattern, "", text): the text from position i on with the
\* leftmost non-overlapping matches removed.
RECURSIVE ReSub(_, _, _)
ReSub(text, i, lang) ==
    IF i > Len(text) THEN <<>>
    ELSE IF FenceAt(text, i) /\ FenceEnd(text, i, lang) # 0
         THEN ReSub(text, FenceEnd(text, i, lang), lang)
         ELSE <<text[i]>> \o ReSub(text, i + 1, lang)

\* utils.clean_code: both substitutions.
clean_code(text) == ReSub(ReSub(text, 1, TRUE), 1, FALSE)

\* json_utils.clean_code: the first substitution only.
json_utils_clean_code(text) == ReSub(text, 1, TRUE)

NotCleaned == <<"not called">>

CleanerInit ==
    cleaner = [text |-> <<>>, out |-> NotCleaned, json_out |-> NotCleaned,
               again |-> NotCleaned]

\* The text to clean grows by a character (response.output_text is any
\* text); what was computed for the shorter text is dropped.
ExtendText ==
    /\ Len(cleaner.text) < MaxText
    /\ \E c \in TextChars :
          cleaner' = [text |-> Append(cleaner.text, c), out |-> NotCleaned,
                      json_out |-> NotCleaned, again |-> NotCleaned]
    /\ UNCHANGED notCleaner

\* utils.clean_code(text)
CleanCode ==
    /\ cleaner' = [text |-> cleaner.text, out |-> clean_code(cleaner.text),
                   json_out |-> NotCleaned, again |-> NotCleaned]
    /\ UNCHANGED notCleaner

\* json_utils.clean_code on the same text
JsonUtilsCleanCode ==
    /\ cleaner.out # NotCleaned
    /\ cleaner' = [cleaner EXCEPT !.json_out = json_utils_clean_code(cleaner.text)]
    /\ UNCHANGED notCleaner

\* utils.clean_code on its own output
CleanCodeAgain ==
    /\ cleaner.out # NotCleaned
    /\ cleaner' = [cleaner EXCEPT !.again = clean_code(cleaner.out)]
    /\ UNCHANGED notCleaner

NextCleaner ==
    \/ ExtendText
    \/ CleanCode
    \/ JsonUtilsCleanCode
    \/ CleanCodeAgain

----------------------------------------------------------------------------
(* generate_openai_answer under tenacity's @retry (src/llm.py:18-47)        *)

MaxOutput == 3   \* characters of response.output_text

StopAfterAttempt == 10   \* stop=stop_after_attempt(10)
WaitMultiplier == 1      \* wait_exponential(multiplier=1, ...)
WaitMin == 1             \* wait_exponential(..., min=1, ...)
WaitMax == 256           \* wait_exponential(..., max=256)

\* What client.responses.create can do in one attempt: answer with a text,
\* fail with openai.RateLimitError, or fail with another exception.
ApiResponses ==
    {<<"output_text", t>> : t \in SeqsUpTo(TextChars, MaxOutput)}
        \cup {<<"RateLimitError">>, <<"APIError">>}

\* The body of generate_openai_answer for one response of the API.
generate_openai_answer(response) ==
    IF response[1] = "output_text" THEN Returned(clean_code(response[2]))
    ELSE IF response[1] = "RateLimitError" THEN Raised("RateLimitError", <<>>)
    ELSE Raised("RuntimeError", <<"Error generating answer using OpenAI API: ", response[1]>>)

\* A decorator that retries after every exception.
RetryIf_any_exception(outcome) == outcome.kind = "raise"

\* retry=retry_if_exception_type(openai.RateLimitError)
RetryIf(outcome) == outcome.kind = "raise" /\ outcome.exc = "RateLimitError"

\* stop=stop_after_attempt(10)
Stop(attempt_number) == attempt_number >= StopAfterAttempt

\* wait=wait_exponential(multiplier=1, min=1, max=256), in seconds
WaitExponential(attempt_number) ==
    LET exp == WaitMultiplier * Pow2(attempt_number - 1)
        capped == IF exp <= WaitMax THEN exp ELSE WaitMax
    IN  IF capped >= WaitMin THEN capped ELSE WaitMin

RetryingInit ==
    retrying = [pc |-> "idle", attempt_number |-> 0, outcome |-> NotCalled,
                sleep |-> 0, slept |-> 0, out |-> NotCalled]

\* await generate_openai_answer(agent, task): the first attempt is due.
OpenAICall ==
    /\ retrying.pc \in {"idle", "done"}
    /\ retrying' = [pc |-> "attempt", attempt_number |-> 1, outcome |-> NotCalled,
                    sleep |-> 0, slept |-> 0, out |-> NotCalled]
    /\ UNCHANGED notRetrying

\* One attempt: the body runs; then no retry is due and the outcome is the
\* call's, or the attempts are used up and reraise=True raises the last
\* exception, or a sleep is scheduled.
OpenAIAttempt ==
    /\ retrying.pc = "attempt"
    /\ \E response \in ApiResponses :
          LET outcome == generate_openai_answer(response) IN
          IF ~RetryIf(outcome)
          THEN retrying' = [retrying EXCEPT !.pc = "done", !.outcome = outcome,
                                            !.out = outcome]
          ELSE IF Stop(retrying.attempt_number)
          THEN retrying' = [retrying EXCEPT !.pc = "done", !.outcome = outcome,
                                            !.out = outcome]
          ELSE retrying' = [retrying EXCEPT !.pc = "sleep", !.outcome = outcome,
                                            !.sleep = WaitExponential(retrying.attempt_number)]
    /\ UNCHANGED notRetrying

\* The sleep between two attempts.
OpenAISleep ==
    /\ retrying.pc = "sleep"
    /\ retrying' = [retrying EXCEPT !.pc = "attempt",
                                    !.attempt_number = @ + 1,
                                    !.slept = @ + retrying.sleep,
                                    !.sleep = 0]
    /\ UNCHANGED notRetrying

NextRetrying ==
    \/ OpenAICall
    \/ OpenAIAttempt
    \/ OpenAISleep

----------------------------------------------------------------------------
(* Specifications *)

Init ==
    /\ GraderInit
    /\ ConcInit
    /\ PipeInit
    /\ MetricsInit
    /\ CfgInit
    /\ LlmInit
    /\ FsysInit
    /\ CleanerInit
    /\ RetryingInit

\* One caller grading one pair after another.
Spec == Init /\ [][Next]_vars

\* Several callers grading concurrently.
SpecConc == Init /\ [][NextConc]_vars

\* Callers of the evaluation pipeline.
SpecPipe == Init /\ [][NextPipe]_vars

\* Resultsets of every content.
SpecMetrics == Init /\ [][NextMetrics]_vars

\* Configuration directories of every content, searched with every pattern.
SpecConfig == Init /\ [][NextConfig]_vars

\* Calls of generate_answer for every provider string, awaited or not.
SpecLlm == Init /\ [][NextLlm]_vars

\* Data models written to a file, the file read back, loaded by the
\* dashboard, overwritten or deleted.
SpecFiles == Init /\ [][NextFiles]_vars

\* The dashboard loading an evaluation file that other programs write.
SpecDashboard == Init /\ [][NextDashboard]_vars

\* Texts cleaned by the two clean_code functions.
SpecCleaner == Init /\ [][NextCleaner]_vars

\* One generate_openai_answer call after another, each with its retries.
SpecRetrying == Init /\ [][NextRetrying]_vars

----------------------------------------------------------------------------
(* Vocabulary of the properties *)

\* The six denylisted top-level module names of the specification.
Denylist == {"os", "sys", "subprocess", "socket", "urllib", "requests"}

\* A step that executed one statement of graded code.
StmtStep == nAnswer' + nTest' = nAnswer + nTest + 1

\* The statement executed last was an assertion of the test code on a name
\* the answer code bound.
TestAssertedAnswerName ==
    /\ last.phase = "test"
    /\ last.stmt.op = "assert_eq"
    /\ boundBy[last.stmt.name] = "answer"

----------------------------------------------------------------------------
(* C1: whenever an invocation ends and neither the answer code nor the test *)
(* code raised (so every assertion of the test held on the answer's         *)
(* bindings), generate_result returned true.                                *)
C1_CorrectPairReturnsTrue ==
    (pc = "done" /\ exc = NoExc) => result = "true"

\* An invocation returned after two assertions of the test held, the last one
\* on a name the answer bound.
C1_Witness ==
    /\ pc = "done"
    /\ result = "true"
    /\ TestAssertedAnswerName
    /\ assertsHeld >= 2

(* C2: when the invocation ended with an assertion of the test code         *)
(* violated by the value the namespace holds for the asserted name,         *)
(* generate_result returned the boolean false and raised nothing.           *)
C2_ViolatedAssertionReturnsFalse ==
    (/\ pc = "done"
     /\ last.phase = "test"
     /\ last.stmt.op = "assert_eq"
     /\ namespace[last.stmt.name] # Unbound
     /\ namespace[last.stmt.name] # last.stmt.val)
    => result = "false"

\* One assertion of the test held and a later one, on a name the answer
\* bound, failed.
C2_Witness ==
    /\ pc = "done"
    /\ result = "false"
    /\ exc.kind = "AssertionError"
    /\ TestAssertedAnswerName
    /\ assertsHeld >= 1

(* C3: when graded code imported one of the six denylisted modules, the     *)
(* invocation left generate_result with the ImportError "Import of '<name>' *)
(* is blocked" and returned no boolean.                                     *)
C3_BlockedImportRaises ==
    (/\ pc = "done"
     /\ last.stmt.op = "import"
     /\ last.stmt.mod \in {<<d>> : d \in Denylist})
    => (result = "raise" /\ exc = Exc("ImportError", last.stmt.mod))

(* C4: when the answer code or the test code did not compile, the           *)
(* invocation left generate_result with the SyntaxError and did not return  *)
(* false.                                                                   *)
C4_SyntaxErrorRaises ==
    (pc = "done" /\ exc.kind = "SyntaxError") => result = "raise"

(* C5: when graded code raised a runtime error other than an assertion      *)
(* failure (division by zero, name error, type error), the invocation left  *)
(* generate_result with that error and did not return false.                *)
C5_RuntimeFaultRaises ==
    (pc = "done" /\ exc.kind \in {"ZeroDivisionError", "NameError", "TypeError"})
    => result = "raise"

(* C6: whenever generate_result returned false, what was raised was an      *)
(* assertion failure; every other failure left the call without a boolean.  *)
C6_OnlyAssertionBecomesFalse ==
    /\ (pc = "done" /\ result = "false") => exc.kind = "AssertionError"
    /\ (pc = "done" /\ exc.kind \notin {"none", "AssertionError"}) => result = "raise"

(* C7: when an invocation starts, no variable name resolves for its code:   *)
(* the namespace holds only the built-ins entry and nothing an earlier      *)
(* invocation bound is reachable through it.                                *)
C7_NoNameVisibleAtStart ==
    pc = "created" =>
        /\ namespace = EmptyNamespace
        /\ \A n \in VarNames : Lookup(namespace, safe_builtins, n) = Unbound

(* C8: the step from the answer code to the test code keeps the namespace:  *)
(* every name the answer bound is there, with the value the answer left,    *)
(* when the test code starts.                                               *)
C8_TestSharesAnswerNamespace ==
    [][(pc = "answer" /\ pc' = "test") => namespace' = namespace]_vars

\* The test code read, in an assertion that held, a name the answer bound.
C8_Witness ==
    /\ pc = "test"
    /\ exc = NoExc
    /\ TestAssertedAnswerName
    /\ namespace[last.stmt.name] = last.stmt.val

(* C9: an import statement naming an installed module whose top-level name  *)
(* is not denylisted raises nothing, binds the module in the namespace and  *)
(* leaves the invocation running in the same phase.                         *)
C9_PermittedImportSucceeds ==
    [][(/\ StmtStep
        /\ last'.stmt.op = "import"
        /\ last'.stmt.mod \in InstalledModules
        /\ Top(last'.stmt.mod) \notin Denylist)
       => (/\ exc' = NoExc
           /\ namespace'[Top(last'.stmt.mod)] = ModVal(Top(last'.stmt.mod))
           /\ pc' = pc)]_vars

\* The answer imported math, and the invocation went on to pass its test.
C9_Witness ==
    /\ pc = "done"
    /\ result = "true"
    /\ namespace["math"] = ModVal("math")
    /\ <<"math">> \in delegated
    /\ assertsHeld >= 1

(* C10: an import statement naming a module whose top-level component is    *)
(* denylisted, dotted names included, fails with the ImportError carrying   *)
(* the requested name and is never handed to the real import mechanism.     *)
C10_GuardMatchesTopLevelName ==
    (last.stmt.op = "import" /\ Top(last.stmt.mod) \in Denylist)
    => (exc = Exc("ImportError", last.stmt.mod) /\ last.stmt.mod \notin delegated)

(* C11: for an undotted module name, safe_import raises the ImportError     *)
(* carrying that name exactly when the name is, case-sensitively, one of    *)
(* the six denylisted names; any other undotted name is handed once, as     *)
(* given, to the real import mechanism, whose module is returned and bound  *)
(* or whose ModuleNotFoundError is raised unchanged.                        *)
C11_UndottedGuardIsExact ==
    [][(/\ StmtStep
        /\ last'.stmt.op = "import"
        /\ Len(last'.stmt.mod) = 1)
       => LET m == last'.stmt.mod IN
          /\ (exc' = Exc("ImportError", m)) <=> (Top(m) \in Denylist)
          /\ Top(m) \in Denylist => delegated' = delegated
          /\ Top(m) \notin Denylist =>
                /\ delegated' = delegated \cup {m}
                /\ IF m \in InstalledModules
                   THEN exc' = NoExc /\ namespace'[Top(m)] = ModVal(Top(m))
                   ELSE exc' = Exc("ModuleNotFoundError", m)]_vars

\* Code imported "OS": the guard let it through and the real import
\* mechanism's ModuleNotFoundError came back.
C11_Witness ==
    /\ last.stmt.op = "import"
    /\ last.stmt.mod = <<"OS">>
    /\ exc = Exc("ModuleNotFoundError", <<"OS">>)
    /\ <<"OS">> \in delegated

\* The steps an invocation may take: Created -> Running(answer) ->
\* Running(test) -> terminal, a failure ("raised") leading to the terminal
\* state only.
C12_Edges ==
    {<<"idle", "created">>, <<"done", "created">>,
     <<"created", "answer">>, <<"created", "raised">>,
     <<"answer", "answer">>, <<"answer", "raised">>, <<"answer", "test">>,
     <<"test", "test">>, <<"test", "raised">>, <<"test", "done">>,
     <<"raised", "done">>}

(* C12: every invocation follows Created -> Running(answer) ->              *)
(* Running(test) -> terminal: the answer code is entered once, from         *)
(* Created; test statements run only while nothing has been raised; after   *)
(* the first failure no statement runs; the invocation ends with exactly    *)
(* one outcome, which is "passed" exactly when the test code ran to its end.*)
C12_InvocationStateMachine ==
    [][/\ <<pc, pc'>> \in C12_Edges
       /\ pc = "raised" => (nAnswer' = nAnswer /\ nTest' = nTest /\ exc' = exc)
       /\ nTest' > nTest => (pc = "test" /\ exc = NoExc)
       /\ pc' = "done" => /\ result' \in {"true", "false", "raise"}
                          /\ (result' = "true") <=> (pc = "test")]_vars

\* An invocation failed in its answer code and ended without running the test.
C12_Witness ==
    /\ pc = "done"
    /\ result = "raise"
    /\ nAnswer = 1
    /\ nTest = 0

(* C20: when the answer code is about to start, the built-ins of the        *)
(* namespace have the host's names, each with the host's value, except      *)
(* "__import__", which is the Import Guard.                                 *)
C20_BuiltinsAreHostsExceptImport ==
    pc = "created" =>
        /\ DOMAIN safe_builtins = DOMAIN hostBuiltins
        /\ \A k \in DOMAIN hostBuiltins \ {"__import__"} : safe_builtins[k] = hostBuiltins[k]
        /\ safe_builtins["__import__"] = FnVal("safe_import")
        /\ hostBuiltins["__import__"] # FnVal("safe_import")

\* A namespace was built and offers the host's len.
C20_Witness ==
    /\ pc = "created"
    /\ safe_builtins["len"] = FnVal("len")
    /\ safe_builtins["__import__"] = FnVal("safe_import")

(* C13: whatever the interleaving of the workers' invocations, each         *)
(* invocation's outcome is the outcome its code produces when run alone.    *)
C13_ConcurrentOutcomeEqualsSolo ==
    \A w \in Workers :
        workers[w].pc = "done" => workers[w].result = SoloResult(w)

(* C14: for every index i, the Result the pipeline builds for task i has    *)
(* passed equal to the boolean generate_result gives for answers[i] and     *)
(* tests[i].                                                                *)
C14_RecordedPassedIsGrade ==
    \A i \in DOMAIN pipe.results :
        pipe.results[i].passed =
            (GenerateResult(HostBuiltins0, pipe.answers[i], pipe.tests[i]) = "true")

\* The number of results whose passed is true, counted without the code's loop.
PassedCount(results) == Cardinality({i \in DOMAIN results : results[i]})

IsPowerOfTwo(n) == \E k \in 0..30 : n = Pow2(k)

\* C15 as stated: for every Resultset with at least one result, number_passed
\* is the number of results whose passed is true, size is the number of
\* results, and percentage_passed * size = 100 * number_passed.
C15_PercentageTimesSizeIsExact ==
    Len(metrics) >= 1 =>
        /\ Resultset_number_passed(metrics) = PassedCount(metrics)
        /\ Resultset_size(metrics) = Len(metrics)
        /\ FMulInt(Resultset_percentage_passed(metrics), Resultset_size(metrics))
               = FromInt(100 * Resultset_number_passed(metrics))

\* C15: for every Resultset with at least one result, number_passed is the
\* number of results whose passed is true (so 0 <= number_passed <= size),
\* size is the number of results, and percentage_passed is the double
\* (number_passed / size) * 100.0: it lies in [0, 100], is 0.0 exactly when
\* nothing passed and 100.0 exactly when everything passed, and satisfies
\* percentage_passed * size = 100 * number_passed when size is a power of two.
C15_ResultsetMetrics ==
    Len(metrics) >= 1 =>
        LET np == Resultset_number_passed(metrics)
            size == Resultset_size(metrics)
            pct == Resultset_percentage_passed(metrics)
        IN  /\ np = PassedCount(metrics)
            /\ 0 <= np /\ np <= size
            /\ size = Len(metrics)
            /\ FLe(FZero, pct) /\ FLe(pct, FromInt(100))
            /\ (pct = FZero) <=> (np = 0)
            /\ (pct = FromInt(100)) <=> (np = size)
            /\ IsPowerOfTwo(size) => FMulInt(pct, size) = FromInt(100 * np)

\* One result of three passed: the percentage is 33.33333333333333.
C15_Witness ==
    /\ Len(metrics) = 3
    /\ Resultset_number_passed(metrics) = 1
    /\ Resultset_percentage_passed(metrics) # FZero

\* What the contract of find_config_file asks of an outcome.
FirstMatchOrNotFound(out) ==
    LET matching == {f \in cfg.files : Matches(f, cfg.pattern)} IN
    IF matching # {}
    THEN /\ out.kind = "return"
         /\ out.value \in matching
         /\ \A m \in matching : ~StrLess(m, out.value)
    ELSE /\ out.kind = "raise"
         /\ out.exc = "FileNotFoundError"
         /\ out.msg # <<>>
         /\ Head(out.msg) = "No config file matching pattern"

\* C17: find_config_file(configs_dir, pattern) returns the lexicographically
\* first matching path when a file matches, and raises FileNotFoundError
\* with a message starting 'No config file matching pattern' when none does,
\* an empty directory included.
C17_FirstMatchOrFileNotFound ==
    cfg.utils.kind # "none" =>
        /\ FirstMatchOrNotFound(cfg.utils)
        /\ FirstMatchOrNotFound(cfg.config_utils)

\* What the dispatch contract asks of an outcome of generate_answer.
DispatchedOutcome(out) ==
    IF Lower(llm.provider).word = "openai"
    THEN /\ llm.openai_calls = 1
         /\ out = llm.openai_out
    ELSE /\ llm.openai_calls = 0
         /\ out = Raised("ValueError", <<"Unsupported model provider: ", llm.provider>>)

\* C19: generate_answer dispatches on the lower-cased provider: for "openai"
\* in any letter case the call returns exactly what generate_openai_answer
\* returns for the same agent and task, and for every other provider it
\* raises ValueError "Unsupported model provider: <provider>" without
\* calling any provider.
C19_CallDispatchesOnProvider ==
    llm.co # "none" => DispatchedOutcome(llm.call_out)

\* The same contract for the awaited coroutine.
AwaitedCallDispatchesOnProvider ==
    llm.co = "done" => DispatchedOutcome(llm.await_out)

\* C16: serialization round trip: for every data-model value m,
\* serialize_data_model(path, m) followed by
\* deserialize_data_model(path, type(m)) yields a value equal to m.
C16_RoundTripYieldsEqualValue ==
    /\ fsys.call.op = "serialize" => fsys.call.out.kind = "return"
    /\ (fsys.call.op = "deserialize" /\ fsys.written.some
            /\ fsys.call.type = fsys.written.type) =>
          /\ fsys.call.out.kind = "return"
          /\ fsys.call.out.value = Mk(fsys.written.type, fsys.written.seed, TRUE)

\* The file is an evaluation file: it validates as an Evaluation, or it is
\* what serialize_data_model wrote for an Evaluation.
ValidEvaluationFile ==
    /\ fsys.file[1] = "json"
    /\ \/ ValidModel("Evaluation", fsys.file[2])
       \/ fsys.written.some /\ fsys.written.type = "Evaluation"

\* C18: load_evaluation_from_file never raises: it returns None for a
\* missing file, a file that is not valid JSON and JSON that does not match
\* the Evaluation structure, and for a valid evaluation file it returns a
\* value that is not None and carries the evaluation's data.
C18_LoadReturnsDataOrNone ==
    fsys.call.op = "load" =>
        /\ fsys.call.out.kind = "return"
        /\ IF ValidEvaluationFile
           THEN /\ fsys.call.out.value[1] = "object"
                /\ \A k \in DOMAIN Schema["Evaluation"] :
                       k \in DOMAIN fsys.call.out.value[2]
                /\ fsys.call.out.value[2].name = fsys.file[2][2].name
           ELSE fsys.call.out.value = NoValue

\* The evaluation value e has one result per task, and result i pairs the
\* answer and the test of task i of the taskset.
OneResultPerTask(e) ==
    LET tasks == ListOf(e.taskset.tasks)
        answers == ListOf(e.answerset.answers)
        results == ListOf(e.resultset.results)
    IN  /\ Len(results) = Len(tasks)
        /\ Len(answers) = Len(tasks)
        /\ \A i \in DOMAIN results :
              /\ results[i].answer.task = tasks[i]
              /\ results[i].test.task = tasks[i]

\* C21: every evaluation built by create_evaluation or rerun_evaluation has
\* exactly one result per task (resultset size = answerset size = taskset
\* size), and for every index i the result's answer and test both reference
\* task i of the taskset.
C21_BuiltEvaluationPairsSameTask ==
    /\ pipe.op = "create_evaluation" =>
          /\ pipe.outcome = "ok"
          /\ Len(pipe.results) = Len(pipe.tasks)
          /\ Len(pipe.answers) = Len(pipe.tasks)
    /\ (fsys.call.op = "rerun" /\ ValidEvaluationFile) =>
          /\ fsys.call.out.kind = "return"
          /\ OneResultPerTask(fsys.call.out.value)

\* C22: rerun_evaluation keeps the stored evaluation's name, version,
\* description, language, library, taskset, testset, model and agent as
\* loaded from the file, and replaces only the answerset, the resultset and
\* the benchmark, each rebuilt from those unchanged inputs.
C22_RerunKeepsInputsAndRebuildsOutputs ==
    (fsys.call.op = "rerun" /\ ValidEvaluationFile) =>
        /\ fsys.call.out.kind = "return"
        /\ LET stored == deserialize_data_model(fsys.file, "Evaluation").value
               rerun == fsys.call.out.value
           IN  /\ \A k \in {"name", "version", "description", "language", "library",
                            "taskset", "testset", "model", "agent"} :
                      rerun[k] = stored[k]
               /\ rerun.answerset.taskset = stored.taskset
               /\ rerun.answerset.agent = stored.agent
               /\ rerun.resultset.taskset = stored.taskset
               /\ rerun.resultset.testset = stored.testset
               /\ rerun.resultset.answerset = rerun.answerset
               /\ rerun.benchmark.library = stored.library
               /\ ListOf(rerun.benchmark.resultsets) = <<rerun.resultset>>

\* The smallest of three lengths, written without the code's zip.
Shortest(a, b, c) ==
    CHOOSE n \in {Len(a), Len(b), Len(c)} : n <= Len(a) /\ n <= Len(b) /\ n <= Len(c)

\* C30: create_resultset never raises on a length mismatch: given task,
\* answer and test sequences of any lengths it produces exactly
\* min(len(tasks), len(answers), len(tests)) results, in task order, result
\* i built from tasks[i], answers[i] and tests[i].
C30_ResultsetTruncatesToShortest ==
    pipe.op = "create_resultset" =>
        /\ pipe.outcome = "ok"
        /\ Len(pipe.results) = Shortest(pipe.tasks, pipe.answers, pipe.tests)
        /\ \A i \in DOMAIN pipe.results :
              /\ pipe.results[i].task = pipe.tasks[i]
              /\ pipe.results[i].answer = pipe.answers[i]
              /\ pipe.results[i].test = pipe.tests[i]

\* The results create_resultset computes before it builds the Resultset are
\* the shortest-length prefix pairing.
ZipTruncatesToShortest ==
    pipe.op = "create_resultset" =>
        /\ Len(pipe.results) = Shortest(pipe.tasks, pipe.answers, pipe.tests)
        /\ \A i \in DOMAIN pipe.results :
              /\ pipe.results[i].task = pipe.tasks[i]
              /\ pipe.results[i].answer = pipe.answers[i]
              /\ pipe.results[i].test = pipe.tests[i]

(* C24: no false pass: generate_result returns true only when the answer    *)
(* code and then the test code ran to their end without raising; no step    *)
(* ends an invocation with true after an exception of any kind.             *)
C24_NoFalsePass ==
    [][(pc' = "done" /\ result' = "true") =>
          /\ pc = "test"
          /\ exc = NoExc
          /\ exc' = NoExc
          /\ nAnswer' = nAnswer
          /\ nTest' = nTest]_vars

\* An invocation whose test code raised a fault after an assertion had held
\* ended with false.
C24_Witness ==
    /\ pc = "done"
    /\ exc.kind \in {"ZeroDivisionError", "TypeError", "NameError", "ImportError"}
    /\ last.phase = "test"
    /\ assertsHeld >= 1
    /\ result = "false"

(* C25: an assertion failure raised while the answer code is executing      *)
(* yields the result false, and the test code is never executed.            *)
C25_AnswerAssertionSkipsTest ==
    [][(pc = "raised" /\ exc.kind = "AssertionError" /\ last.phase = "answer") =>
          /\ nTest = 0
          /\ pc' = "done"
          /\ result' = "false"
          /\ nTest' = 0]_vars

\* An invocation ended with false after an assertion of the answer code,
\* its second statement, failed; no test statement ran.
C25_Witness ==
    /\ pc = "done"
    /\ result = "false"
    /\ exc.kind = "AssertionError"
    /\ last.phase = "answer"
    /\ nAnswer = 2
    /\ nTest = 0

(* C26: installing the Import Guard has no effect outside the graded        *)
(* namespace: during and after any sequence of invocations, whatever their  *)
(* outcome, the host's import hook is the real import mechanism and the     *)
(* host's built-ins mapping has the entries it had before the calls.        *)
C26_HostBuiltinsUntouched ==
    /\ hostBuiltins["__import__"] = FnVal("__import__")
    /\ \A k \in DOMAIN hostBuiltins : hostBuiltins[k] = HostBuiltins0[k]

\* The step that installs the guard writes the per-call copy only.
GuardInstalledInCopyOnly ==
    [][pc' = "created" =>
          /\ hostBuiltins' = hostBuiltins
          /\ safe_builtins'["__import__"] = FnVal("safe_import")]_vars

\* The results of all resultsets of a Benchmark value, and those that passed,
\* counted as sets: a resultset without results contributes nothing.
BenchmarkResults(b) ==
    LET resultsets == ListOf(b.resultsets) IN
    {<<i, j>> \in (DOMAIN resultsets) \X (1..MaxItems + 1) :
        j \in DOMAIN ListOf(resultsets[i].results)}

BenchmarkPassed(b) ==
    {p \in BenchmarkResults(b) : ListOf(b.resultsets)[p[1]].results.val[p[2]].passed}

\* C29: for every Benchmark with a non-empty list of resultsets, resultsets
\* without results included, computing the metrics does not raise:
\* total_size and number_passed are the sums over the resultsets (one
\* without results contributing 0), and percentage_passed is None exactly
\* when total_size is 0.
C29_BenchmarkMetricsDefined ==
    (fsys.call.op = "serialize" /\ fsys.call.type = "Benchmark") =>
        /\ fsys.call.out.kind = "return"
        /\ LET b == Mk("Benchmark", fsys.written.seed, TRUE)
               dump == fsys.file[2][2]
           IN  /\ dump.total_size = <<"int", Cardinality(BenchmarkResults(b))>>
               /\ dump.number_passed = <<"int", Cardinality(BenchmarkPassed(b))>>
               /\ (dump.percentage_passed = <<"null">>) <=> (BenchmarkResults(b) = {})

\* The same for the benchmarks whose resultsets all hold results.
BenchmarkMetricsOfFilledResultsets ==
    (fsys.call.op = "serialize" /\ fsys.call.type = "Benchmark"
        /\ fsys.call.out.kind = "return") =>
        LET b == Mk("Benchmark", fsys.written.seed, TRUE)
            dump == fsys.file[2][2]
        IN  /\ dump.total_size = <<"int", Cardinality(BenchmarkResults(b))>>
            /\ dump.number_passed = <<"int", Cardinality(BenchmarkPassed(b))>>
            /\ dump.percentage_passed # <<"null">>

\* The text holds no run of three backticks.
NoFence(text) == \A i \in 1..Len(text) : ~FenceAt(text, i)

\* C23: for every input text the output of clean_code contains no
\* triple-backtick fence, a text without a fence is returned unchanged,
\* clean_code applied to its own output changes nothing, and the one-pass
\* function of json_utils returns what the two-pass function of utils
\* returns.
C23_CleanCodeRemovesFences ==
    cleaner.out # NotCleaned =>
        /\ NoFence(cleaner.out)
        /\ NoFence(cleaner.text) => cleaner.out = cleaner.text
        /\ cleaner.again # NotCleaned => cleaner.again = cleaner.out
        /\ cleaner.json_out # NotCleaned =>
              /\ cleaner.json_out = cleaner.out
              /\ NoFence(cleaner.json_out)

\* A text of four backticks and a language tag was cleaned by both functions
\* and cleaned again: one backtick and the tag are left.
C23_Witness ==
    /\ cleaner.text = <<Backtick, Backtick, Backtick, Backtick, "p">>
    /\ cleaner.out = <<Backtick, "p">>
    /\ cleaner.json_out = cleaner.out
    /\ cleaner.again = cleaner.out

\* The outcome of the attempt made last was a rate-limit error.
RateLimited == retrying.outcome = Raised("RateLimitError", <<>>)

C28_LoadReturnsCurrentContent ==
    fsys.call.op = "load" => fsys.call.out = load_evaluation_from_file(fsys.file)

\* C28, amended: only the first call for a path reads the file; its return
\* value is kept, and every later call for the path returns the kept value,
\* whatever the file holds at the time of that call.
C28_LaterCallsReturnCachedValue ==
    [][/\ fsys.cache.kind # "none" => fsys'.cache = fsys.cache
       /\ fsys'.call.op = "load" =>
             /\ fsys'.file = fsys.file
             /\ fsys'.call.out = fsys'.cache
             /\ fsys.cache.kind = "none" =>
                   fsys'.call.out = load_evaluation_from_file(fsys.file)]_vars

\* A call returned the data of an evaluation although the file was gone: the
\* value came from an earlier call for the path.
C28_Witness ==
    /\ fsys.call.op = "load"
    /\ fsys.file = Missing
    /\ fsys.call.out.kind = "return"
    /\ fsys.call.out.value[1] = "object"

====
